---- MODULE Spec2Model ----
(***************************************************************************)
(* Model of asana_progress_gui.py (AsanaProgressTrackerGUI): the           *)
(* credential gate (load_api_key, connect_to_asana, save_api_key,          *)
(* clear_api_key), the aggregation pipeline (get_all_projects,             *)
(* get_project_progress) and the refresh orchestrator (refresh_data,       *)
(* _load_projects_thread_with_progress and the callbacks it posts with     *)
(* root.after).                                                            *)
(***************************************************************************)
EXTENDS Integers, Sequences, FiniteSets, TLC

(* ---------------------------------------------------------------------- *)
(* Bounds of the model                                                     *)
(* ---------------------------------------------------------------------- *)

\* refresh sessions (worker threads) started in one run of the program;
\* the runs that repeat a refresh start one more
MaxSessions == 1

\* longest task list the task endpoint returns in the aggregation runs
MaxTasks == 3

\* longest status list the status endpoint returns in the aggregation runs
MaxStatuses == 2

(* ---------------------------------------------------------------------- *)
(* Values                                                                  *)
(* ---------------------------------------------------------------------- *)

\* keyring.get_password returns None when nothing is stored; self.client = None
None == "None"

\* Tokens the operator can hold: one the service accepts, one it rejects.
Secrets == {"good", "bad"}

\* users.me() and every other call of a client built from a rejected token
\* raise; calls of an accepted token can still raise (transport errors).
Valid(api_key) == api_key = "good"

\* the threads a run can create
Sessions == 1..(MaxSessions + 1)

\* colors of a status entity; "purple" is a value outside the mapping and
\* None is an entity without a color
Colors == {"green", "blue", "yellow", "red", "complete", "purple", None}

\* created_at values, ordered like the ISO timestamps they stand for
Timestamps == {1, 2}

\* what a listing call gives back: it raised, or it yielded `items`
RaisedResponse == [raised |-> TRUE, items |-> <<>>]
Response(items) == [raised |-> FALSE, items |-> items]

RECURSIVE SeqsUpTo(_, _)
SeqsUpTo(S, n) ==
    IF n = 0 THEN {<<>>}
    ELSE LET shorter == SeqsUpTo(S, n - 1)
         IN  shorter \cup {Append(q, x) : q \in {r \in shorter : Len(r) = n - 1}, x \in S}

(* ---------------------------------------------------------------------- *)
(* get_project_progress: the per-project computation                       *)
(* ---------------------------------------------------------------------- *)

\* completed_tasks = sum(1 for task in tasks if task.get('completed', False))
RECURSIVE CompletedTasks(_)
CompletedTasks(tasks) ==
    IF tasks = <<>> THEN 0
    ELSE (IF Head(tasks).completed THEN 1 ELSE 0) + CompletedTasks(Tail(tasks))

\* a percentage is the exact quotient num/den of the float the code computes
PercentageNoScale(completed_tasks, total_tasks) ==
    IF total_tasks > 0 THEN [num |-> completed_tasks, den |-> total_tasks]
    ELSE [num |-> 0, den |-> 1]

\* percentage = (completed_tasks / total_tasks * 100) if total_tasks > 0 else 0
Percentage(completed_tasks, total_tasks) ==
    IF total_tasks > 0 THEN [num |-> completed_tasks * 100, den |-> total_tasks]
    ELSE [num |-> 0, den |-> 1]

\* max(statuses, key=lambda x: x.get('created_at', '')): the first element
\* whose key no later element exceeds strictly
RECURSIVE LatestStatus(_)
LatestStatus(statuses) ==
    IF Len(statuses) = 1 THEN Head(statuses)
    ELSE LET rest == LatestStatus(Tail(statuses))
         IN  IF rest.created_at > Head(statuses).created_at THEN rest
             ELSE Head(statuses)

ColorStatusWithoutComplete(color) ==
    CASE color = "green" -> "On track"
      [] color = "blue" -> "On hold"
      [] color = "yellow" -> "At risk"
      [] color = "red" -> "Off track"
      [] OTHER -> "No status"

\* the if/elif chain on latest_status.get('color', None)
ColorStatus(color) ==
    CASE color = "green" -> "On track"
      [] color = "blue" -> "On hold"
      [] color = "yellow" -> "At risk"
      [] color = "red" -> "Off track"
      [] color = "complete" -> "Completed"
      [] OTHER -> "No status"

FlagStatusArchivedFirst(project) ==
    IF project.archived THEN "Archived"
    ELSE IF project.completed THEN "Completed"
    ELSE "Active"

\* the except branch of the status block: the label from the project's flags
FlagStatus(project) ==
    IF project.completed THEN "Completed"
    ELSE IF project.archived THEN "Archived"
    ELSE "Active"

\* find_by_project returns the client's lazy collection (a generator, like
\* tasks_generator above it), which is true whatever it will yield
Truthy(statuses) == TRUE

\* the status block, on the response of the status listing: a listing that
\* raised lands in the except branch, and so does max() of a generator that
\* yields nothing (ValueError, raised inside the same try)
StatusText(project, statuses) ==
    IF statuses.raised THEN FlagStatus(project)
    ELSE IF Truthy(statuses.items)
         THEN IF statuses.items = <<>> THEN FlagStatus(project)
              ELSE ColorStatus(LatestStatus(statuses.items).color)
         ELSE "No status"

\* the dictionary returned on the normal path
ProgressRecord(project, total_tasks, completed_tasks, percentage, status_text) ==
    [name |-> project.name,
     workspace |-> project.workspace_name,
     total_tasks |-> total_tasks,
     completed_tasks |-> completed_tasks,
     percentage |-> percentage,
     completed |-> project.completed,
     archived |-> project.archived,
     status |-> status_text,
     color |-> project.color]

ErrorRecordActive(project) ==
    [name |-> project.name,
     workspace |-> project.workspace_name,
     total_tasks |-> 0,
     completed_tasks |-> 0,
     percentage |-> [num |-> 0, den |-> 1],
     completed |-> project.completed,
     archived |-> project.archived,
     status |-> "Active",
     color |-> "red"]

\* the dictionary returned by the outer except
ErrorRecord(project) ==
    [name |-> project.name,
     workspace |-> project.workspace_name,
     total_tasks |-> 0,
     completed_tasks |-> 0,
     percentage |-> [num |-> 0, den |-> 1],
     completed |-> project.completed,
     archived |-> project.archived,
     status |-> "Error",
     color |-> "red"]

(* ---------------------------------------------------------------------- *)
(* update_projects_display, update_summary: what the table shows           *)
(* ---------------------------------------------------------------------- *)

\* a.percentage > b.percentage
Greater(a, b) == a.percentage.num * b.percentage.den > b.percentage.num * a.percentage.den

\* sorted(workspace_projects, key=percentage, reverse=True): stable, so a
\* record goes after every record that is not smaller than it
RECURSIVE InsertByPercentage(_, _)
InsertByPercentage(sorted, rec) ==
    IF sorted = <<>> THEN <<rec>>
    ELSE IF Greater(rec, Head(sorted)) THEN <<rec>> \o sorted
    ELSE <<Head(sorted)>> \o InsertByPercentage(Tail(sorted), rec)

RECURSIVE SortedByPercentage(_)
SortedByPercentage(projects) ==
    IF projects = <<>> THEN <<>>
    ELSE InsertByPercentage(SortedByPercentage(SubSeq(projects, 1, Len(projects) - 1)),
                            projects[Len(projects)])

\* workspace_groups: the workspace names in the order of first appearance
RECURSIVE WorkspaceOrder(_, _)
WorkspaceOrder(projects, seen) ==
    IF projects = <<>> THEN <<>>
    ELSE IF Head(projects).workspace \in seen THEN WorkspaceOrder(Tail(projects), seen)
    ELSE <<Head(projects).workspace>>
         \o WorkspaceOrder(Tail(projects), seen \cup {Head(projects).workspace})

\* the rows gridded into projects_frame: per workspace group a header and
\* the group's records by descending percentage
TableRows(projects) ==
    LET order == WorkspaceOrder(projects, {})
    IN  [g \in 1..Len(order) |->
            [workspace |-> order[g],
             rows |-> SortedByPercentage(
                          SelectSeq(projects, LAMBDA p : p.workspace = order[g]))]]

RECURSIVE SumOf(_, _)
SumOf(projects, field) ==
    IF projects = <<>> THEN 0 ELSE Head(projects)[field] + SumOf(Tail(projects), field)

\* update_summary
Summary(projects) ==
    LET total_tasks == SumOf(projects, "total_tasks")
        completed_tasks == SumOf(projects, "completed_tasks")
    IN  [total_projects |-> Len(projects),
         completed_projects |-> Len(SelectSeq(projects, LAMBDA p : p.completed)),
         active_projects |->
             Len(SelectSeq(projects, LAMBDA p : ~p.completed /\ ~p.archived)),
         archived_projects |-> Len(SelectSeq(projects, LAMBDA p : p.archived)),
         total_tasks |-> total_tasks,
         completed_tasks |-> completed_tasks,
         overall_percentage |-> Percentage(completed_tasks, total_tasks)]

NoSummary ==
    [total_projects |-> 0, completed_projects |-> 0, active_projects |-> 0,
     archived_projects |-> 0, total_tasks |-> 0, completed_tasks |-> 0,
     overall_percentage |-> [num |-> 0, den |-> 1]]

(* ---------------------------------------------------------------------- *)
(* State                                                                   *)
(* ---------------------------------------------------------------------- *)

VARIABLES
    phase,                    \* "init" inside __init__, "mainloop" after it
    keyring,                  \* the secret stored under ("asana_cli", "api_key")
    client,                   \* self.client: None, or the token the client was built from
    status_label,             \* text of the connection status label
    settings_window,          \* the modal settings window is open (grab_set)
    projects_data,            \* self.projects_data
    current_workspace_filter, \* self.current_workspace_filter
    workspace_menu,           \* the values of the workspace option menu
    loading_label,            \* text of the label, and whether it is gridded
    loading_progress,         \* self.loading_progress: the bar and its value
    loading_percent_label,    \* self.loading_percent_label
    refresh_button,           \* state of the refresh button
    table,                    \* the group headers and rows in projects_frame
    summary,                  \* what summary_frame shows
    thread,                   \* the locals of each worker thread
    after_queue,              \* callbacks posted with root.after(0, ...), in order
    started,                  \* threads created so far
    session,                  \* state of each refresh session
    reported                  \* handlers of this module that an exception of their own code left

credVars == <<keyring, client, status_label>>
dispVars == <<projects_data, workspace_menu, loading_label, loading_progress,
              loading_percent_label, table, summary>>
vars == <<phase, keyring, client, status_label, settings_window, projects_data,
          current_workspace_filter, workspace_menu, loading_label, loading_progress,
          loading_percent_label, refresh_button, table, summary, thread,
          after_queue, started, session, reported>>

IdleThread ==
    [pc |-> "idle", workspaces |-> <<>>, wi |-> 1, all_projects |-> <<>>,
     idx |-> 0, total_tasks |-> 0, completed_tasks |-> 0,
     percentage |-> [num |-> 0, den |-> 1], statuses |-> Response(<<>>),
     project_progress |-> <<>>, e |-> None, task_raised |-> {}]

NoWidget == [exists |-> FALSE, alive |-> FALSE, value |-> <<0, 1>>]

\* the state when __init__ has run setup_ui and is about to load the key
Init ==
    /\ phase = "init"
    /\ keyring \in Secrets \cup {None}
    /\ client = None
    /\ status_label = "Not connected"
    /\ settings_window = FALSE
    /\ projects_data = <<>>
    /\ current_workspace_filter = "All Workspaces"
    /\ workspace_menu = {"All Workspaces"}
    /\ loading_label = [text |-> "Click 'Refresh' to load your Asana projects",
                        gridded |-> TRUE]
    /\ loading_progress = NoWidget
    /\ loading_percent_label = NoWidget
    /\ refresh_button = "normal"
    /\ table = <<>>
    /\ summary = NoSummary
    /\ thread = [s \in Sessions |-> IdleThread]
    /\ after_queue = <<>>
    /\ started = 0
    /\ session = [s \in Sessions |-> "NotStarted"]
    /\ reported = {}

(* ---------------------------------------------------------------------- *)
(* Credential gate                                                         *)
(* ---------------------------------------------------------------------- *)

\* how users.me() can end for a client built from api_key
WhoAmI(api_key) == IF Valid(api_key) THEN BOOLEAN ELSE {FALSE}

\* how a listing call of self.client can end: it raises when self.client is
\* None (AttributeError) or its token is rejected, and may raise otherwise
CallOutcomes(handle) ==
    IF handle # None /\ Valid(handle) THEN BOOLEAN ELSE {FALSE}

\* connect_to_asana: self.client is assigned in the first statement of the
\* try, before users.me() is called, and the except leaves it assigned
ConnectedClient(api_key, ok) == api_key

\* connect_to_asana: the text it puts on status_label
ConnectStatus(ok) == IF ok THEN "Connected to Asana" ELSE "Connection failed"

\* load_api_key, with the outcome of keyring.get_password and of users.me()
LoadApiKey(getOk, ok) ==
    /\ keyring' = keyring
    /\ IF ~getOk
       THEN /\ status_label' = "Error"
            /\ client' = client
       ELSE IF keyring # None
       THEN /\ client' = ConnectedClient(keyring, ok)
            /\ status_label' = ConnectStatus(ok)
       ELSE /\ status_label' = "API key not found"
            /\ client' = client

KeyringRolledBack(prev, api_key, connected) == IF connected THEN api_key ELSE prev

\* save_api_key: keyring.set_password runs before connect_to_asana and
\* nothing undoes it
KeyringAfterSave(prev, api_key, connected) == api_key

ClearEscapesOnError(delOk) == ~delOk

\* clear_api_key: whether an exception leaves the handler (the whole body
\* is inside try / except Exception: pass)
ClearEscapes(delOk) == FALSE

(* ---------------------------------------------------------------------- *)
(* refresh_data, show_settings and the display handlers                    *)
(* ---------------------------------------------------------------------- *)

\* show_settings: the window opens and grabs the pointer
ShowSettings == settings_window' = TRUE

Destroyed(widget) == [widget EXCEPT !.alive = FALSE]

\* refresh_data after its guard: clear the display, show the loading label
\* and a fresh bar at 0, disable the button, start the worker thread
StartSession(limit) ==
    /\ started < limit
    /\ table' = <<>>
    /\ loading_label' = [text |-> "Loading projects...", gridded |-> TRUE]
    /\ loading_progress' = [exists |-> TRUE, alive |-> TRUE, value |-> <<0, 1>>]
    /\ loading_percent_label' = [exists |-> TRUE, alive |-> TRUE, value |-> <<0, 1>>]
    /\ refresh_button' = "disabled"
    /\ started' = started + 1
    /\ thread' = [thread EXCEPT ![started + 1].pc = "workspaces"]
    /\ session' = [session EXCEPT ![started + 1] = "Running"]
    /\ UNCHANGED <<projects_data, workspace_menu, summary>>

\* update_projects_display(projects)
UpdateProjectsDisplay(projects) ==
    /\ projects_data' = projects
    /\ loading_progress' = Destroyed(loading_progress)
    /\ loading_percent_label' = Destroyed(loading_percent_label)
    /\ IF projects = <<>>
       THEN /\ loading_label' = [loading_label EXCEPT !.text = "No projects found"]
            /\ table' = <<>>
            /\ UNCHANGED <<workspace_menu, summary>>
       ELSE /\ workspace_menu' = {"All Workspaces"}
                                   \cup {projects[i].workspace : i \in 1..Len(projects)}
            /\ summary' = Summary(projects)
            /\ table' = TableRows(projects)
            /\ loading_label' = [loading_label EXCEPT !.gridded = FALSE]

(* ---------------------------------------------------------------------- *)
(* __init__ and the operator's intents                                     *)
(* ---------------------------------------------------------------------- *)

\* __init__ after setup_ui: load the key, then refresh or open the settings
Startup ==
    /\ phase = "init"
    /\ phase' = "mainloop"
    /\ \E getOk \in BOOLEAN, ok \in WhoAmI(keyring) : LoadApiKey(getOk, ok)
    /\ IF client' # None
       THEN StartSession(1) /\ UNCHANGED settings_window
       ELSE ShowSettings /\ UNCHANGED <<dispVars, refresh_button, started, thread, session>>
    /\ UNCHANGED <<current_workspace_filter, after_queue, reported>>

\* the Refresh button: refresh_data, in a run of at most `limit` sessions
RequestRefresh(limit) ==
    /\ phase = "mainloop"
    /\ ~settings_window
    /\ refresh_button = "normal"
    /\ IF client = None
       THEN ShowSettings /\ UNCHANGED <<dispVars, refresh_button, started, thread, session>>
       ELSE StartSession(limit) /\ UNCHANGED settings_window
    /\ UNCHANGED <<phase, credVars, current_workspace_filter, after_queue, reported>>

\* the Settings button: show_settings
RequestSettings ==
    /\ phase = "mainloop"
    /\ ~settings_window
    /\ ShowSettings
    /\ UNCHANGED <<phase, credVars, dispVars, current_workspace_filter, refresh_button,
                   thread, after_queue, started, session, reported>>

\* the Cancel button of the settings window: settings_window.destroy
CancelSettings ==
    /\ phase = "mainloop"
    /\ settings_window
    /\ settings_window' = FALSE
    /\ UNCHANGED <<phase, credVars, dispVars, current_workspace_filter, refresh_button,
                   thread, after_queue, started, session, reported>>

\* the Save button with api_key in the entry: save_api_key
SubmitSecret(api_key) ==
    /\ phase = "mainloop"
    /\ settings_window
    /\ IF api_key = ""
       THEN UNCHANGED <<credVars, settings_window>>
       ELSE \E setOk \in BOOLEAN, ok \in WhoAmI(api_key) :
              IF ~setOk
              THEN UNCHANGED <<keyring, client, status_label, settings_window>>
              ELSE /\ keyring' = KeyringAfterSave(keyring, api_key, ok)
                   /\ client' = ConnectedClient(api_key, ok)
                   /\ status_label' = ConnectStatus(ok)
                   /\ settings_window' = IF ok THEN FALSE ELSE settings_window
    /\ UNCHANGED <<phase, dispVars, current_workspace_filter, refresh_button, thread,
                   after_queue, started, session, reported>>

\* the Clear button: clear_api_key, with the outcome of keyring.delete_password
ClearSecret ==
    /\ phase = "mainloop"
    /\ settings_window
    /\ \E delOk \in BOOLEAN :
         /\ IF delOk
            THEN /\ keyring' = None
                 /\ client' = None
                 /\ status_label' = "API key cleared"
            ELSE UNCHANGED <<keyring, client, status_label>>
         /\ reported' = IF ClearEscapes(delOk) THEN reported \cup {"clear_api_key"}
                        ELSE reported
    /\ UNCHANGED <<phase, settings_window, dispVars, current_workspace_filter,
                   refresh_button, thread, after_queue, started, session>>

\* the workspace menu: filter_by_workspace
SelectWorkspaceFilter(workspace) ==
    /\ phase = "mainloop"
    /\ ~settings_window
    /\ current_workspace_filter' = workspace
    /\ UpdateProjectsDisplay(projects_data)
    /\ UNCHANGED <<phase, credVars, settings_window, refresh_button, thread, after_queue,
                   started, session, reported>>

(* ---------------------------------------------------------------------- *)
(* The worker thread: _load_projects_thread_with_progress                  *)
(* ---------------------------------------------------------------------- *)

Callback(cb, sid, p, projects) == [cb |-> cb, sid |-> sid, p |-> p, projects |-> projects]

\* percent = (idx + 1) / total if total > 0 else 1
Fraction(idx, total) == IF total > 0 THEN <<idx + 1, total>> ELSE <<1, 1>>

\* the two callbacks posted after the project at position idx
ProgressPosts(sid, idx, total) ==
    <<Callback("loading_progress.set", sid, Fraction(idx, total), <<>>),
      Callback("loading_percent_label.configure", sid, Fraction(idx, total), <<>>)>>

FinallyPostsNothing(sid) == <<>>

\* the finally clause: the callback that sets the button back to normal
FinallyPosts(sid) == <<Callback("refresh_button.configure", sid, <<0, 1>>, <<>>)>>

\* where the for loop goes after idx projects are done
LoopPc(idx, total) == IF idx < total THEN "tasks" ELSE "final"

\* project['workspace_name'] = workspace_name, for each project of a listing
Tagged(projects, workspace) ==
    [i \in 1..Len(projects) |->
        [gid |-> projects[i].gid, name |-> projects[i].name,
         completed |-> projects[i].completed, archived |-> projects[i].archived,
         color |-> projects[i].color, workspace_name |-> workspace.name]]

\* an exception leaves get_all_projects: the except clause posts the lambda
\* that will call show_error, with e still bound while the clause runs
PipelineError(sid) ==
    /\ thread' = [thread EXCEPT ![sid].pc = "finally", ![sid].e = "bound"]
    /\ after_queue' = Append(after_queue, Callback("show_error", sid, <<0, 1>>, <<>>))

workerUnchanged ==
    <<phase, credVars, settings_window, dispVars, current_workspace_filter,
      started, session, reported>>

FinallyButtonDirect(state) == "normal"

\* the state of the button when the finally clause has run on the worker:
\* the clause only posts the lambda that will configure it
FinallyButton(state) == state

\* get_all_projects: self.client.workspaces.find_all()
GetWorkspaces(sid, R) ==
    /\ thread[sid].pc = "workspaces"
    /\ \E ok \in CallOutcomes(client) :
         IF ok
         THEN /\ \E workspaces \in R.workspaces :
                   thread' = [thread EXCEPT
                       ![sid].workspaces = workspaces,
                       ![sid].pc = IF workspaces = <<>> THEN LoopPc(0, 0) ELSE "projects"]
              /\ UNCHANGED after_queue
         ELSE PipelineError(sid)
    /\ UNCHANGED <<workerUnchanged, refresh_button>>

\* get_all_projects: self.client.projects.find_all for the next workspace
GetProjects(sid, R) ==
    /\ thread[sid].pc = "projects"
    /\ LET t == thread[sid]
           workspace == t.workspaces[t.wi]
       IN  \E ok \in CallOutcomes(client) :
             IF ok
             THEN /\ \E projects \in R.projects[workspace.gid] :
                       LET all_projects == t.all_projects \o Tagged(projects, workspace)
                       IN  thread' = [thread EXCEPT
                               ![sid].all_projects = all_projects,
                               ![sid].wi = t.wi + 1,
                               ![sid].pc = IF t.wi < Len(t.workspaces) THEN "projects"
                                           ELSE LoopPc(0, Len(all_projects))]
                  /\ UNCHANGED after_queue
             ELSE PipelineError(sid)
    /\ UNCHANGED <<workerUnchanged, refresh_button>>

\* get_project_progress: the task listing, the counts and the percentage;
\* when the listing raises, the outer except returns the "Error" record
GetTasks(sid, R) ==
    /\ thread[sid].pc = "tasks"
    /\ LET t == thread[sid]
           total == Len(t.all_projects)
           project == t.all_projects[t.idx + 1]
       IN  \E ok \in CallOutcomes(client) :
             IF ok
             THEN /\ \E tasks \in R.task_lists :
                       thread' = [thread EXCEPT
                           ![sid].total_tasks = Len(tasks),
                           ![sid].completed_tasks = CompletedTasks(tasks),
                           ![sid].percentage = Percentage(CompletedTasks(tasks), Len(tasks)),
                           ![sid].pc = "statuses"]
                  /\ UNCHANGED after_queue
             ELSE /\ thread' = [thread EXCEPT
                           ![sid].project_progress = Append(@, ErrorRecord(project)),
                           ![sid].task_raised = @ \cup {t.idx + 1},
                           ![sid].idx = t.idx + 1,
                           ![sid].pc = LoopPc(t.idx + 1, total)]
                  /\ after_queue' = after_queue \o ProgressPosts(sid, t.idx, total)
    /\ UNCHANGED <<workerUnchanged, refresh_button>>

\* get_project_progress: the status listing
GetStatuses(sid, R) ==
    /\ thread[sid].pc = "statuses"
    /\ \E ok \in CallOutcomes(client) :
         IF ok
         THEN \E statuses \in R.status_lists :
                thread' = [thread EXCEPT ![sid].statuses = Response(statuses),
                                         ![sid].pc = "record"]
         ELSE thread' = [thread EXCEPT ![sid].statuses = RaisedResponse,
                                       ![sid].pc = "record"]
    /\ UNCHANGED <<workerUnchanged, refresh_button, after_queue>>

\* get_project_progress: the status label and the returned record; then the
\* loop body appends it and posts the progress
MakeRecord(sid) ==
    /\ thread[sid].pc = "record"
    /\ LET t == thread[sid]
           total == Len(t.all_projects)
           project == t.all_projects[t.idx + 1]
           progress_info == ProgressRecord(project, t.total_tasks, t.completed_tasks,
                                           t.percentage, StatusText(project, t.statuses))
       IN  /\ thread' = [thread EXCEPT
                   ![sid].project_progress = Append(@, progress_info),
                   ![sid].total_tasks = 0,
                   ![sid].completed_tasks = 0,
                   ![sid].percentage = [num |-> 0, den |-> 1],
                   ![sid].statuses = Response(<<>>),
                   ![sid].idx = t.idx + 1,
                   ![sid].pc = LoopPc(t.idx + 1, total)]
           /\ after_queue' = after_queue \o ProgressPosts(sid, t.idx, total)
    /\ UNCHANGED <<workerUnchanged, refresh_button>>

\* after the loop: post update_projects_display and _hide_loading_progress
PostResult(sid) ==
    /\ thread[sid].pc = "final"
    /\ thread' = [thread EXCEPT ![sid].pc = "finally"]
    /\ after_queue' = after_queue \o
           <<Callback("update_projects_display", sid, <<0, 1>>, thread[sid].project_progress),
             Callback("_hide_loading_progress", sid, <<0, 1>>, <<>>)>>
    /\ UNCHANGED <<workerUnchanged, refresh_button>>

\* the end of the except clause unbinds e; the finally clause posts the
\* callback that enables the button; the thread ends
Finally(sid) ==
    /\ thread[sid].pc = "finally"
    /\ thread' = [thread EXCEPT ![sid].pc = "done", ![sid].e = None]
    /\ after_queue' = after_queue \o FinallyPosts(sid)
    /\ refresh_button' = FinallyButton(refresh_button)
    /\ UNCHANGED workerUnchanged

Worker(sid, R) ==
    \/ GetWorkspaces(sid, R)
    \/ GetProjects(sid, R)
    \/ GetTasks(sid, R)
    \/ GetStatuses(sid, R)
    \/ MakeRecord(sid)
    \/ PostResult(sid)
    \/ Finally(sid)

(* ---------------------------------------------------------------------- *)
(* The event loop running the callbacks posted with root.after             *)
(* ---------------------------------------------------------------------- *)

\* widget.set(p) / widget.configure(...): on a destroyed widget the call
\* raises TclError inside the toolkit and the widget shows nothing new
SetWidget(widget, p) == IF widget.alive THEN [widget EXCEPT !.value = p] ELSE widget

Dispatch ==
    /\ phase = "mainloop"
    /\ after_queue # <<>>
    /\ after_queue' = Tail(after_queue)
    /\ LET c == Head(after_queue)
       IN  CASE c.cb = "loading_progress.set" ->
                  /\ loading_progress' = SetWidget(loading_progress, c.p)
                  /\ UNCHANGED <<projects_data, workspace_menu, loading_label,
                                 loading_percent_label, table, summary,
                                 refresh_button, session, reported>>
             [] c.cb = "loading_percent_label.configure" ->
                  /\ loading_percent_label' = SetWidget(loading_percent_label, c.p)
                  /\ UNCHANGED <<projects_data, workspace_menu, loading_label,
                                 loading_progress, table, summary,
                                 refresh_button, session, reported>>
             [] c.cb = "update_projects_display" ->
                  /\ UpdateProjectsDisplay(c.projects)
                  /\ session' = [session EXCEPT ![c.sid] = "Displaying"]
                  /\ UNCHANGED <<refresh_button, reported>>
             [] c.cb = "_hide_loading_progress" ->
                  /\ loading_progress' = Destroyed(loading_progress)
                  /\ loading_percent_label' = Destroyed(loading_percent_label)
                  /\ UNCHANGED <<projects_data, workspace_menu, loading_label, table,
                                 summary, refresh_button, session, reported>>
             [] c.cb = "show_error" ->
                  \* the lambda reads e when it runs: NameError once the
                  \* except clause that bound e has ended
                  /\ IF thread[c.sid].e = "bound"
                     THEN /\ loading_label' = [loading_label EXCEPT
                                                  !.text = "Error loading projects"]
                          /\ refresh_button' = "normal"
                          /\ UNCHANGED reported
                     ELSE /\ reported' = reported \cup {c.cb}
                          /\ UNCHANGED <<loading_label, refresh_button>>
                  /\ session' = [session EXCEPT ![c.sid] = "Failed"]
                  /\ UNCHANGED <<projects_data, workspace_menu, loading_progress,
                                 loading_percent_label, table, summary>>
             [] c.cb = "refresh_button.configure" ->
                  /\ refresh_button' = "normal"
                  /\ UNCHANGED <<dispVars, session, reported>>
    /\ UNCHANGED <<phase, credVars, settings_window, current_workspace_filter, thread,
                   started>>

(* ---------------------------------------------------------------------- *)
(* The remote service and the specifications                               *)
(* ---------------------------------------------------------------------- *)

Project(gid, name, completed, archived) ==
    [gid |-> gid, name |-> name, completed |-> completed, archived |-> archived,
     color |-> "light-blue"]

Task(completed) == [completed |-> completed]

\* two workspaces with one project each
MainRemote ==
    [workspaces |-> {<<[gid |-> "w1", name |-> "Alpha"], [gid |-> "w2", name |-> "Beta"]>>},
     projects |-> [w \in {"w1", "w2"} |->
                     IF w = "w1" THEN {<<Project("p1", "P1", FALSE, FALSE)>>}
                     ELSE {<<Project("p2", "P2", TRUE, TRUE)>>}],
     task_lists |-> {<<Task(TRUE), Task(FALSE)>>},
     status_lists |-> {<<>>}]

\* one workspace with at most one project, any flags, and every task list
\* and status list within the bounds
WideRemote ==
    [workspaces |-> {<<>>, <<[gid |-> "w1", name |-> "Alpha"]>>},
     projects |-> [w \in {"w1"} |->
                     {<<>>} \cup {<<Project("p1", "P1", c, a)>> : c \in BOOLEAN, a \in BOOLEAN}],
     task_lists |-> SeqsUpTo({Task(TRUE), Task(FALSE)}, MaxTasks),
     status_lists |-> SeqsUpTo([color : Colors, created_at : Timestamps], MaxStatuses)]

NextOf(limit) ==
    \/ Startup
    \/ RequestRefresh(limit)
    \/ RequestSettings
    \/ CancelSettings
    \/ \E api_key \in Secrets \cup {""} : SubmitSecret(api_key)
    \/ ClearSecret
    \/ \E workspace \in workspace_menu : SelectWorkspaceFilter(workspace)
    \/ \E sid \in Sessions : Worker(sid, MainRemote)
    \/ Dispatch

Next == NextOf(MaxSessions)

Spec == Init /\ [][Next]_vars

\* the runs in which a refresh is requested once more
RepeatNext == NextOf(MaxSessions + 1)

RepeatSpec == Init /\ [][RepeatNext]_vars

\* the pipeline alone, started by __init__, over the wide remote
AggregationNext ==
    \/ Startup
    \/ \E sid \in Sessions : Worker(sid, WideRemote)
    \/ Dispatch

AggregationSpec == Init /\ [][AggregationNext]_vars

\* the worker threads run until they end and the event loop keeps running
\* the callbacks posted to it
FairSpec ==
    /\ Spec
    /\ WF_vars(Dispatch)
    /\ \A sid \in Sessions : WF_vars(Worker(sid, MainRemote))

(* ---------------------------------------------------------------------- *)
(* Claims                                                                  *)
(* ---------------------------------------------------------------------- *)

Running(sid) == thread[sid].pc \notin {"idle", "done"}

\* the records of a sequence
Records(projects) == {projects[i] : i \in 1..Len(projects)}

\* every record the program holds: in a worker's list, in a posted
\* callback, in projects_data or in a row of the table
AllRecords ==
    UNION {Records(thread[sid].project_progress) : sid \in Sessions}
    \cup UNION {Records(after_queue[i].projects) : i \in 1..Len(after_queue)}
    \cup Records(projects_data)
    \cup UNION {Records(table[g].rows) : g \in 1..Len(table)}

\* C1: at most one worker thread is running in every reachable state.
C1_AtMostOneWorker == Cardinality({sid \in Sessions : Running(sid)}) <= 1

\* C2: after a failed validation (the status label reads "Connection
\* failed") the program holds no client handle, so no session was started
\* by __init__ with it.
C2_FailedValidationLeavesNoClient ==
    status_label = "Connection failed" => client = None

\* C3: under fairness of the workers and of the event loop, every session
\* that is Running reaches Displaying or Failed, and the refresh button is
\* normal again at some time after that.
C3_SessionsEnd ==
    \A sid \in Sessions :
        (session[sid] = "Running")
            ~> (session[sid] \in {"Displaying", "Failed"} /\ refresh_button = "normal")

\* C3 witness: a session has been displayed, its thread has ended, its
\* callbacks have run and the button is normal
C3_Witness ==
    \E sid \in Sessions :
        /\ session[sid] = "Displaying"
        /\ thread[sid].pc = "done"
        /\ after_queue = <<>>
        /\ refresh_button = "normal"

\* C4: a project whose task listing raised has the record with zero counts,
\* zero percentage and status "Error" under its own name, workspace and
\* flags; the list holds one record per project done so far, a displayed
\* session holds one per enumerated project, and such a session never fails.
C4_PerProjectFailureIsolated ==
    \A sid \in Sessions :
        LET t == thread[sid]
        IN  /\ Len(t.project_progress) = t.idx
            /\ \A i \in t.task_raised :
                   /\ t.project_progress[i] =
                         [name |-> t.all_projects[i].name,
                          workspace |-> t.all_projects[i].workspace_name,
                          total_tasks |-> 0, completed_tasks |-> 0,
                          percentage |-> [num |-> 0, den |-> 1],
                          completed |-> t.all_projects[i].completed,
                          archived |-> t.all_projects[i].archived,
                          status |-> "Error", color |-> "red"]
                   /\ session[sid] # "Failed"
                   /\ \A k \in 1..Len(after_queue) :
                         after_queue[k].sid = sid => after_queue[k].cb # "show_error"
            /\ session[sid] = "Displaying"
                   => Len(t.project_progress) = Len(t.all_projects)

\* C4 witness: a displayed session in which one task listing raised and
\* another project has its normal record
C4_Witness ==
    \E sid \in Sessions :
        /\ session[sid] = "Displaying"
        /\ thread[sid].task_raised # {}
        /\ \E i \in 1..Len(thread[sid].project_progress) :
               /\ i \notin thread[sid].task_raised
               /\ thread[sid].project_progress[i].status # "Error"
        /\ projects_data = thread[sid].project_progress

\* C5: when a session fails, the error message is shown in place of the
\* project list and no record is displayed.
C5_FailureShowsError ==
    [][\A sid \in Sessions :
          session[sid] = "Running" /\ session'[sid] = "Failed"
            => /\ loading_label'.text = "Error loading projects"
               /\ loading_label'.gridded
               /\ table' = <<>>]_vars

\* C6: when the status listing raised or yielded nothing, the label of the
\* record is "Completed" for a completed project, else "Archived" for an
\* archived one, else "Active"; whatever the status listing did, the counts
\* and the percentage of the record are the ones the task listing gave.
C6_FlagDerivedStatus ==
    [][\A sid \in Sessions :
          thread[sid].pc = "record" /\ thread'[sid].pc # "record"
            => LET t == thread[sid]
                   project == t.all_projects[t.idx + 1]
                   rec == thread'[sid].project_progress[t.idx + 1]
               IN  /\ rec.total_tasks = t.total_tasks
                   /\ rec.completed_tasks = t.completed_tasks
                   /\ rec.percentage = t.percentage
                   /\ t.statuses.raised \/ t.statuses.items = <<>>
                        => rec.status = IF project.completed THEN "Completed"
                                        ELSE IF project.archived THEN "Archived"
                                        ELSE "Active"]_vars

\* C6 witness: the record of an archived, not completed project with the
\* most tasks, some completed, labelled "Archived" (a label only the
\* flag-derived branch produces)
C6_Witness ==
    \E sid \in Sessions :
        /\ thread[sid].project_progress # <<>>
        /\ LET rec == thread[sid].project_progress[1]
           IN  /\ rec.status = "Archived"
               /\ rec.archived /\ ~rec.completed
               /\ rec.total_tasks = MaxTasks
               /\ rec.completed_tasks > 0

\* C7: after a save whose validation failed (the label reads "Connection
\* failed" and the client is the one built from the submitted token) the
\* keyring holds the submitted token.
C7_FailedSaveKeepsSecret ==
    status_label = "Connection failed" => keyring # None /\ keyring = client

\* C7 witness: a rejected token was saved after a session had enumerated
\* the workspaces with an accepted one
C7_Witness ==
    /\ settings_window
    /\ status_label = "Connection failed"
    /\ keyring = "bad"
    /\ client = "bad"
    /\ thread[1].workspaces # <<>>

\* C8: no exception leaves clear_api_key, and after a delete that succeeded
\* (the label reads "API key cleared") the keyring holds nothing and the
\* client handle is dropped.
C8_ClearNeverFails ==
    /\ "clear_api_key" \notin reported
    /\ status_label = "API key cleared" => keyring = None /\ client = None

\* C8 witness: a successful clear while a session started with the old
\* handle is still running
C8_Witness ==
    /\ status_label = "API key cleared"
    /\ keyring = None
    /\ \E sid \in Sessions : Running(sid)

\* the fractions of the session's progress callbacks still in the queue
PostedFractions(sid) ==
    SelectSeq(after_queue, LAMBDA c : c.cb = "loading_progress.set" /\ c.sid = sid)

\* C9: the posted fractions of a session are (index+1)/total, in order, so
\* strictly increasing and in [0,1], and when the session reaches Displaying
\* with total > 0 the bar shows 1.
C9_ProgressReachesOne ==
    [][/\ \A sid \in Sessions :
            LET posted == PostedFractions(sid)
                total == Len(thread[sid].all_projects)
            IN  \A k \in 1..Len(posted) :
                    /\ posted[k].p[2] = total
                    /\ posted[k].p[1] = thread[sid].idx - Len(posted) + k
                    /\ 0 < posted[k].p[1] /\ posted[k].p[1] <= total
       /\ \A sid \in Sessions :
            session[sid] = "Running" /\ session'[sid] = "Displaying"
            /\ thread[sid].all_projects # <<>>
              => /\ loading_progress.alive
                 /\ loading_progress.value[1] = loading_progress.value[2]]_vars

\* C10: every record has 0 <= completed_tasks <= total_tasks and
\* 0 <= percentage <= 100, and its percentage is completed_tasks/total_tasks*100
\* when total_tasks > 0 and 0 when total_tasks = 0.
C10_RecordBounds ==
    \A rec \in AllRecords :
        /\ 0 <= rec.completed_tasks /\ rec.completed_tasks <= rec.total_tasks
        /\ rec.percentage.den > 0
        /\ 0 <= rec.percentage.num /\ rec.percentage.num <= 100 * rec.percentage.den
        /\ rec.total_tasks > 0
             => rec.percentage.num * rec.total_tasks
                  = rec.completed_tasks * 100 * rec.percentage.den
        /\ rec.total_tasks = 0 => rec.percentage.num = 0

\* C10 witness: a displayed record with some but not all of the most tasks
\* completed
C10_Witness ==
    \E g \in 1..Len(table) :
        \E rec \in Records(table[g].rows) :
            /\ rec.total_tasks = MaxTasks
            /\ 0 < rec.completed_tasks /\ rec.completed_tasks < rec.total_tasks

\* the state only the event loop's thread may write
uiVars == <<projects_data, current_workspace_filter, workspace_menu, loading_label,
            loading_progress, loading_percent_label, refresh_button, table, summary,
            status_label, settings_window>>

\* the result lists a session has posted and the event loop has not run yet
PostedResults(sid) ==
    SelectSeq(after_queue, LAMBDA c : c.cb = "update_projects_display" /\ c.sid = sid)

\* C11: a step of a started worker thread leaves the UI state as it was and
\* only appends callbacks to the event loop's queue; once the worker has
\* posted its result list it no longer changes the list, and the posted
\* list is the worker's list.
C11_WorkerOnlyPosts ==
    [][\A sid \in Sessions :
          /\ thread[sid].pc # "idle" /\ thread'[sid] # thread[sid]
                => /\ UNCHANGED uiVars
                   /\ Len(after_queue') >= Len(after_queue)
                   /\ SubSeq(after_queue', 1, Len(after_queue)) = after_queue
          /\ thread[sid].pc \in {"finally", "done"}
                => thread'[sid].project_progress = thread[sid].project_progress
          /\ \A k \in 1..Len(PostedResults(sid)') :
                PostedResults(sid)'[k].projects = thread'[sid].project_progress]_vars

\* C11 witness: a worker has posted its two records and ended while the
\* button is still disabled and the stored sequence still empty
C11_Witness ==
    \E sid \in Sessions :
        /\ thread[sid].pc = "done"
        /\ Len(thread[sid].project_progress) = 2
        /\ PostedResults(sid) # <<>>
        /\ refresh_button = "disabled"
        /\ projects_data = <<>>

\* C12: when the status listing yields entities, the label of the record is
\* the one the mapping gives for the color of an entity with the latest
\* created_at: green "On track", blue "On hold", yellow "At risk", red
\* "Off track", complete "Completed", and "No status" for every other color
\* and for an absent one.
C12_ColorMapping ==
    [][\A sid \in Sessions :
          thread[sid].pc = "record" /\ thread'[sid].pc # "record"
          /\ ~thread[sid].statuses.raised /\ thread[sid].statuses.items # <<>>
            => LET t == thread[sid]
                   items == t.statuses.items
                   rec == thread'[sid].project_progress[t.idx + 1]
               IN  \E i \in 1..Len(items) :
                     /\ \A j \in 1..Len(items) : items[j].created_at <= items[i].created_at
                     /\ rec.status =
                          IF items[i].color = "green" THEN "On track"
                          ELSE IF items[i].color = "blue" THEN "On hold"
                          ELSE IF items[i].color = "yellow" THEN "At risk"
                          ELSE IF items[i].color = "red" THEN "Off track"
                          ELSE IF items[i].color = "complete" THEN "Completed"
                          ELSE "No status"]_vars

\* C12 witness: a record labelled "Completed" for a project that is not
\* completed (the label of the color complete), now displayed
C12_Witness ==
    \E g \in 1..Len(table) :
        \E rec \in Records(table[g].rows) :
            rec.status = "Completed" /\ ~rec.completed /\ rec.total_tasks > 0

\* the stored sequence is the session's: one record per enumerated project,
\* in the order of enumeration
InstalledFrom(sid) ==
    LET t == thread[sid]
    IN  /\ projects_data' = t.project_progress
        /\ Len(projects_data') = Len(t.all_projects)
        /\ \A i \in 1..Len(t.all_projects) :
               /\ projects_data'[i].name = t.all_projects[i].name
               /\ projects_data'[i].workspace = t.all_projects[i].workspace_name

\* C13: when a session reaches Displaying the stored sequence is exactly
\* that session's records, one per enumerated project in enumeration order,
\* and the refresh button is not normal while a session is still Running
\* (it is enabled only after the sequence is installed).
C13_InstalledThenEnabled ==
    [][/\ \A sid \in Sessions :
            session[sid] = "Running" /\ session'[sid] = "Displaying" => InstalledFrom(sid)
       /\ \A sid \in Sessions :
            session'[sid] = "Running" => refresh_button' = "disabled"]_vars

\* C14: while a session is Running the table shows no record (the records
\* it could show are those of an earlier session).
C14_ClearedWhileRunning ==
    \A sid \in Sessions : session[sid] = "Running" => table = <<>>

\* the worker has a remote call still to make, for which it reads self.client
HasCallsToMake(sid) == thread[sid].pc \in {"workspaces", "projects", "tasks", "statuses"}

\* C15: while a worker has remote calls to make, no step changes the client
\* handle it reads.
C15_OneHandlePerSession ==
    [][\A sid \in Sessions : HasCallsToMake(sid) => client' = client]_vars

====
